---- MODULE Spec2Model ----
(***************************************************************************)
(* Barnes-Hut N-body simulator of src/functions.go: the driver BarnesHut,  *)
(* the integrator updateUniverse, the quadtree builder GenerateQuadTree /  *)
(* insertStar and the force evaluator CalculateNetForce.                   *)
(*                                                                         *)
(* Numbers.  A float64 v is modelled by the integer v * Scale (fixed       *)
(* point).  Sums and comparisons are exact.  A product or quotient         *)
(* expression is evaluated exactly and rounded down once to a multiple of  *)
(* 1/Scale, where the source rounds to the nearest float64.                *)
(*                                                                         *)
(* Objects.  Go pointers are modelled by identities: a *Star is an index   *)
(* into the sequence heap, a *Universe an index into universes, a *Node a  *)
(* path (the sequence of child indices from the root) into tree.  Nil is   *)
(* the nil pointer.                                                        *)
(*                                                                         *)
(* Sandpiles.  SimulateSandpiles of src/sandpiles/serial.go and            *)
(* SimulateSandpilesParallel of src/unnamed/part_005 work in place on the  *)
(* Board they are given; a Board is a sequence of rows of integers, and    *)
(* row and column indices start at 1 where the source's start at 0.  The   *)
(* goroutines of the parallel version share the board without              *)
(* synchronisation: every read and every write of a cell is a step.        *)
(*                                                                         *)
(* Input.  ReadUniverse of src/grayScott/functions.go reads a universe     *)
(* from a text file, one line per loop iteration; the file is given to the *)
(* model line by line, as the scanner returns it.                          *)
(***************************************************************************)
EXTENDS Integers, Sequences, FiniteSets, TLC

VARIABLES
    heap,            \* every Star allocated so far: id -> Star
    universes,       \* every Universe allocated so far: id -> [width, stars]
    initialUniverse, \* BarnesHut's argument initialUniverse (a *Universe)
    numGens,         \* BarnesHut's argument numGens
    time,            \* BarnesHut's argument time
    theta,           \* BarnesHut's argument theta
    timePoints,      \* BarnesHut's local timePoints ([]*Universe)
    i,               \* BarnesHut's loop variable i
    pc,              \* where the call of BarnesHut stands
    newUniverse,     \* updateUniverse's local newUniverse (a *Universe)
    tree,            \* updateUniverse's local tree: path -> Node
    inserted,        \* GenerateQuadTree: how many stars its loop has inserted
    updated,         \* updateUniverse: the indices its loop has finished, in order
    locals,          \* updateUniverse: loop locals of the iterations in flight
    created,         \* history: the body values a universe had when it was made
    currentBoard,    \* the Board the sandpile functions were given, changed in place
    numProcs,        \* SimulateSandpilesParallel's argument numProcs
    finalBoards,     \* the local finalBoards ([]Board)
    interval,        \* the local interval
    stable,          \* the local stable
    cell,            \* SimulateSandpiles: the <<row, column>> its scan is at
    workers,         \* the toppleChunk goroutines of the round: i -> its locals
    finished,        \* the number of values in the channel finished
    sandPc,          \* where the call of the sandpile function stands
    startBoard,      \* history: the board as it was given
    fileLines,       \* history: the lines ReadUniverse's scanner has returned
    lineType,        \* ReadUniverse's local lineType
    currentStar,     \* ReadUniverse's local currentStar: << >> for nil, or <<the Star>>
    universe,        \* ReadUniverse's local universe
    readResult,      \* what ReadUniverse returned: << >> before, <<[universe, err]>> after
    readPc           \* where the call of ReadUniverse stands

universeVars == <<heap, universes, initialUniverse, numGens, time, theta, timePoints,
                  i, pc, newUniverse, tree, inserted, updated, locals, created>>

sandVars == <<currentBoard, numProcs, finalBoards, interval, stable, cell, workers,
              finished, sandPc, startBoard>>

readVars == <<fileLines, lineType, currentStar, universe, readResult, readPc>>

vars == <<universeVars, sandVars, readVars>>

----------------------------------------------------------------------------
(* Bounds of the model. *)

MaxStars == 3
MaxGens == 2
MaxMoving == 2

(* Fixed-point resolution: Scale units make 1.0. *)
Scale == 2^4

Nil == 0

----------------------------------------------------------------------------
(* Arithmetic helpers. *)

RECURSIVE SqrtSearch(_, _, _)
\* largest r in lo..hi with r*r <= v (lo*lo <= v < (hi+1)*(hi+1))
SqrtSearch(v, lo, hi) ==
    IF lo >= hi THEN lo
    ELSE LET mid == (lo + hi + 1) \div 2
         IN IF mid * mid <= v THEN SqrtSearch(v, mid, hi)
            ELSE SqrtSearch(v, lo, mid - 1)

\* math.Sqrt of a value held in units of 1/Scale^2, result in units of 1/Scale
Sqrt(v) == SqrtSearch(v, 0, IF v < 46340 THEN v ELSE 46340)

\* a / b rounded toward zero (float64 rounding is symmetric about zero)
Div(a, b) == IF a >= 0 THEN a \div b ELSE -((-a) \div b)

OrderedPair(px, py) == [x |-> px, y |-> py]

ZeroPair == OrderedPair(0, 0)

----------------------------------------------------------------------------
(* Data. *)

\* a Star with every field given
Star(pos, vel, acc, m, r, cr, cg, cb) ==
    [position |-> pos, velocity |-> vel, acceleration |-> acc, mass |-> m,
     radius |-> r, red |-> cr, green |-> cg, blue |-> cb]

\* the composite literal &Star{position: pos, mass: m}: other fields zero
DummyStar(pos, m) == Star(pos, ZeroPair, ZeroPair, m, 0, 0, 0, 0)

Quadrant(qx, qy, w) == [x |-> qx, y |-> qy, width |-> w]

\* the composite literal &Node{sector: q}: star and children nil
Node(q) == [sector |-> q, star |-> Nil, children |-> FALSE]

\* the *Node children[k] of the node at path node (k = 1..4 for Go's 0..3)
Child(node, k) == Append(node, k)

Root == << >>

\* new(Star): the heap with one more object, whose identity is Len + 1
Alloc(h, star) == Append(h, star)

----------------------------------------------------------------------------
(* Quadtree construction.  The operators take and return the pair          *)
(* st = [h |-> heap, t |-> tree] they read and write through pointers.     *)

\* an inRange closed on the high sides and open on the low sides
inRangeHighClosed(pos, q) ==
    /\ pos.x > q.x
    /\ pos.x <= q.x + q.width
    /\ pos.y > q.y
    /\ pos.y <= q.y + q.width

inRange(pos, q) ==
    /\ pos.x >= q.x
    /\ pos.x < q.x + q.width
    /\ pos.y >= q.y
    /\ pos.y < q.y + q.width

\* an initializeQuadrant whose NE child starts at the node's west edge
initializeQuadrantOverlap(st, node) ==
    LET q == st.t[node].sector
        half == Div(q.width, 2)
        kids == (Child(node, 1) :> Node(Quadrant(q.x, q.y + half, half)))
             @@ (Child(node, 2) :> Node(Quadrant(q.x, q.y + half, half)))
             @@ (Child(node, 3) :> Node(Quadrant(q.x, q.y, half)))
             @@ (Child(node, 4) :> Node(Quadrant(q.x + half, q.y, half)))
    IN [st EXCEPT !.t = kids @@ [st.t EXCEPT ![node].children = TRUE]]

initializeQuadrant(st, node) ==
    LET q == st.t[node].sector
        half == Div(q.width, 2)
        kids == (Child(node, 1) :> Node(Quadrant(q.x, q.y + half, half)))         \* NW
             @@ (Child(node, 2) :> Node(Quadrant(q.x + half, q.y + half, half)))  \* NE
             @@ (Child(node, 3) :> Node(Quadrant(q.x, q.y, half)))                \* SW
             @@ (Child(node, 4) :> Node(Quadrant(q.x + half, q.y, half)))         \* SE
    IN [st EXCEPT !.t = kids @@ [st.t EXCEPT ![node].children = TRUE]]

\* an updateCenterOfMass that takes the midpoint, whatever the masses
updateCenterOfMassMidpoint(st, node, newStar) ==
    LET n == st.t[node]
        new == st.h[newStar]
    IN IF n.star = Nil
       THEN [h |-> Alloc(st.h, DummyStar(new.position, new.mass)),
             t |-> [st.t EXCEPT ![node].star = Len(st.h) + 1]]
       ELSE LET old == st.h[n.star]
                px == Div(old.position.x + new.position.x, 2)
                py == Div(old.position.y + new.position.y, 2)
            IN [st EXCEPT !.h[n.star].position = OrderedPair(px, py),
                          !.h[n.star].mass = old.mass + new.mass]

updateCenterOfMass(st, node, newStar) ==
    LET n == st.t[node]
        new == st.h[newStar]
    IN IF n.star = Nil
       THEN [h |-> Alloc(st.h, DummyStar(new.position, new.mass)),
             t |-> [st.t EXCEPT ![node].star = Len(st.h) + 1]]
       ELSE LET old == st.h[n.star]
                totalMass == old.mass + new.mass
                px == Div(old.position.x * old.mass + new.position.x * new.mass, totalMass)
                py == Div(old.position.y * old.mass + new.position.y * new.mass, totalMass)
            IN [st EXCEPT !.h[n.star].position = OrderedPair(px, py),
                          !.h[n.star].mass = totalMass]

RECURSIVE SumChildren(_, _, _, _)
\* the loop of calculateCenterOfMass over children[k..4]: acc = [m, x, y]
SumChildren(st, node, k, acc) ==
    IF k > 4 THEN acc
    ELSE LET c == st.t[Child(node, k)]
         IN IF c.star # Nil
            THEN LET s == st.h[c.star]
                 IN SumChildren(st, node, k + 1,
                        [m |-> acc.m + s.mass,
                         x |-> acc.x + s.position.x * s.mass,
                         y |-> acc.y + s.position.y * s.mass])
            ELSE SumChildren(st, node, k + 1, acc)

\* an aggregate that counts only the last child that holds something
calculateCenterOfMassLastChild(st, node) ==
    IF ~st.t[node].children THEN st
    ELSE LET held == {k \in 1..4 : st.t[Child(node, k)].star # Nil}
         IN IF held # {}
            THEN LET k == CHOOSE a \in held : \A b \in held : b <= a
                     s == st.h[st.t[Child(node, k)].star]
                 IN [h |-> Alloc(st.h, DummyStar(s.position, s.mass)),
                     t |-> [st.t EXCEPT ![node].star = Len(st.h) + 1]]
            ELSE st

calculateCenterOfMass(st, node) ==
    IF ~st.t[node].children THEN st
    ELSE LET tot == SumChildren(st, node, 1, [m |-> 0, x |-> 0, y |-> 0])
         IN IF tot.m > 0
            THEN [h |-> Alloc(st.h, DummyStar(OrderedPair(Div(tot.x, tot.m), Div(tot.y, tot.m)), tot.m)),
                  t |-> [st.t EXCEPT ![node].star = Len(st.h) + 1]]
            ELSE st

\* a coincidence branch that gives the leaf four children
MergeMassSplit(st, node, star) == initializeQuadrant(st, node)

\* the statement of insertStar's coincidence branch (line 108)
MergeMass(st, node, star) ==
    [st EXCEPT !.h[st.t[node].star].mass = st.h[star].mass]

RECURSIVE insertStar(_, _, _)
RECURSIVE ChildInRange(_, _, _, _)

\* the first k..4 with star inside children[k].sector, 0 when there is none
ChildInRange(st, node, star, k) ==
    IF k > 4 THEN 0
    ELSE IF inRange(st.h[star].position, st.t[Child(node, k)].sector) THEN k
    ELSE ChildInRange(st, node, star, k + 1)

insertIntoChild(st, node, star) ==
    LET k == ChildInRange(st, node, star, 1)
    IN IF k = 0 THEN st ELSE insertStar(st, Child(node, k), star)

\* an insertStar that, on a leaf holding another body, keeps that body in
\* the node and sends only the new one down
insertStarKeepExisting(st, node, star) ==
    LET n == st.t[node]
    IN IF n.star = Nil /\ ~n.children
       THEN [st EXCEPT !.t[node].star = star]
       ELSE IF n.children
       THEN insertIntoChild(updateCenterOfMass(st, node, star), node, star)
       ELSE IF /\ st.h[n.star].position.x = st.h[star].position.x
               /\ st.h[n.star].position.y = st.h[star].position.y
       THEN MergeMass(st, node, star)
       ELSE insertIntoChild(initializeQuadrant(st, node), node, star)

insertStar(st, node, star) ==
    LET n == st.t[node]
    IN IF n.star = Nil /\ ~n.children
       THEN [st EXCEPT !.t[node].star = star]
       ELSE IF n.children
       THEN insertIntoChild(updateCenterOfMass(st, node, star), node, star)
       ELSE IF /\ st.h[n.star].position.x = st.h[star].position.x
               /\ st.h[n.star].position.y = st.h[star].position.y
       THEN MergeMass(st, node, star)
       ELSE LET existing == n.star
                s1 == [st EXCEPT !.t[node].star = Nil]
                s2 == initializeQuadrant(s1, node)
                s3 == insertIntoChild(s2, node, existing)
                s4 == insertIntoChild(s3, node, star)
            IN calculateCenterOfMass(s4, node)

\* GenerateQuadTree's first two statements: the tree holding only the root
NewQuadTree(w) == (Root :> Node(Quadrant(0, 0, w)))

\* a tree built from the universe that is being updated
TreeSourceNew(currentUniverse, new) == new

\* which universe updateUniverse hands to GenerateQuadTree (line 26)
TreeSource(currentUniverse, new) == currentUniverse

RECURSIVE InsertAll(_, _, _)
\* GenerateQuadTree's loop from the k-th star of stars on
InsertAll(st, stars, k) ==
    IF k > Len(stars) THEN st
    ELSE InsertAll(insertStar(st, Root, stars[k]), stars, k + 1)

GenerateQuadTree(h, u) ==
    InsertAll([h |-> h, t |-> NewQuadTree(u.width)], u.stars, 1)

----------------------------------------------------------------------------
(* Force evaluation. *)

\* the gravitational constant, in the units of mass in which it is 1.0
G == Scale

computeDistance(s, s2) ==
    LET disx == s2.position.x - s.position.x
        disy == s2.position.y - s.position.y
    IN Sqrt(disx * disx + disy * disy)

computeGravitationalForce(s, s2, dis) ==
    IF dis = 0 THEN ZeroPair
    ELSE LET gMag == Div(G * s.mass * s2.mass, dis * dis)
             dx == s.position.x - s2.position.x
             dy == s.position.y - s2.position.y
         IN OrderedPair(Div(gMag * dx, dis), Div(gMag * dy, dis))

\* CalculateNetForce's test for returning the zero force at once (line 194)
SkipNode(dis, nodeStar, currStar) == dis = 0 \/ nodeStar = currStar

\* a test for adding the node's own force that also passes at ratio = theta
UseNodeOrEqual(ratio, th, isLeaf) == ratio <= th \/ isLeaf

\* CalculateNetForce's test for adding the node's own force (line 200)
UseNode(ratio, th, isLeaf) == ratio < th \/ isLeaf

\* CalculateNetForce's test for visiting the children (line 206)
OpenNode(ratio, th) == ratio >= th

RECURSIVE CalculateNetForce(_, _, _, _, _)
RECURSIVE ChildForces(_, _, _, _, _, _)

\* the loop of CalculateNetForce over children[k..4]
ChildForces(h, t, node, currStar, th, k) ==
    IF k > 4 THEN ZeroPair
    ELSE LET rest == ChildForces(h, t, node, currStar, th, k + 1)
         IN IF t[Child(node, k)].star # Nil
            THEN LET childForce == CalculateNetForce(h, t, Child(node, k), currStar, th)
                 IN OrderedPair(childForce.x + rest.x, childForce.y + rest.y)
            ELSE rest

CalculateNetForce(h, t, node, currStar, th) ==
    LET s == t[node].sector.width
        dis == computeDistance(h[t[node].star], h[currStar])
    IN IF SkipNode(dis, t[node].star, currStar) THEN ZeroPair
       ELSE LET ratio == Div(s * Scale, dis)
                gForce == IF UseNode(ratio, th, ~t[node].children)
                          THEN computeGravitationalForce(h[t[node].star], h[currStar], dis)
                          ELSE ZeroPair
                below == IF OpenNode(ratio, th) /\ t[node].children
                         THEN ChildForces(h, t, node, currStar, th, 1)
                         ELSE ZeroPair
            IN OrderedPair(gForce.x + below.x, gForce.y + below.y)

RECURSIVE SourcesUsed(_, _, _, _, _)
RECURSIVE ChildSources(_, _, _, _, _, _)

ChildSources(h, t, node, currStar, th, k) ==
    IF k > 4 THEN << >>
    ELSE (IF t[Child(node, k)].star # Nil
          THEN SourcesUsed(h, t, Child(node, k), currStar, th)
          ELSE << >>) \o ChildSources(h, t, node, currStar, th, k + 1)

\* the nodes whose star CalculateNetForce hands to computeGravitationalForce,
\* in the order of the calls
SourcesUsed(h, t, node, currStar, th) ==
    LET s == t[node].sector.width
        dis == computeDistance(h[t[node].star], h[currStar])
    IN IF SkipNode(dis, t[node].star, currStar) THEN << >>
       ELSE LET ratio == Div(s * Scale, dis)
            IN (IF UseNode(ratio, th, ~t[node].children) THEN <<node>> ELSE << >>)
               \o (IF OpenNode(ratio, th) /\ t[node].children
                   THEN ChildSources(h, t, node, currStar, th, 1)
                   ELSE << >>)

RECURSIVE Visits(_, _, _, _, _)
RECURSIVE ChildVisits(_, _, _, _, _, _)

ChildVisits(h, t, node, currStar, th, k) ==
    IF k > 4 THEN << >>
    ELSE (IF t[Child(node, k)].star # Nil
          THEN Visits(h, t, Child(node, k), currStar, th)
          ELSE << >>) \o ChildVisits(h, t, node, currStar, th, k + 1)

\* the nodes CalculateNetForce is called on, in the order of the calls
Visits(h, t, node, currStar, th) ==
    LET s == t[node].sector.width
        dis == computeDistance(h[t[node].star], h[currStar])
    IN <<node>> \o
       (IF SkipNode(dis, t[node].star, currStar) THEN << >>
        ELSE IF OpenNode(Div(s * Scale, dis), th) /\ t[node].children
             THEN ChildVisits(h, t, node, currStar, th, 1)
             ELSE << >>)

----------------------------------------------------------------------------
(* Integration. *)

UpdateVelocity(s, oldAcceleration, timeStep) ==
    OrderedPair(
        Div((s.acceleration.x + oldAcceleration.x) * timeStep, 2 * Scale) + s.velocity.x,
        Div((s.acceleration.y + oldAcceleration.y) * timeStep, 2 * Scale) + s.velocity.y)

\* an UpdatePosition that reads the fields of s, which by then hold the new
\* acceleration and velocity
UpdatePositionCurrent(s, oldAcceleration, oldVelocity, timeStep) ==
    OrderedPair(
        Div(s.acceleration.x * (timeStep * timeStep), 2 * Scale * Scale)
            + Div(s.velocity.x * timeStep, Scale) + s.position.x,
        Div(s.acceleration.y * (timeStep * timeStep), 2 * Scale * Scale)
            + Div(s.velocity.y * timeStep, Scale) + s.position.y)

UpdatePosition(s, oldAcceleration, oldVelocity, timeStep) ==
    OrderedPair(
        Div(oldAcceleration.x * (timeStep * timeStep), 2 * Scale * Scale)
            + Div(oldVelocity.x * timeStep, Scale) + s.position.x,
        Div(oldAcceleration.y * (timeStep * timeStep), 2 * Scale * Scale)
            + Div(oldVelocity.y * timeStep, Scale) + s.position.y)

\* a shallow copy: the same *Star again
copyStarsShared(h, s) == [h |-> h, s |-> s]

\* a copyStars that leaves radius and colour at their zero values
copyStarsNoColour(h, s) ==
    [h |-> Alloc(h, Star(OrderedPair(h[s].position.x, h[s].position.y),
                         OrderedPair(h[s].velocity.x, h[s].velocity.y),
                         OrderedPair(h[s].acceleration.x, h[s].acceleration.y),
                         h[s].mass, 0, 0, 0, 0)),
     s |-> Len(h) + 1]

copyStars(h, s) ==
    [h |-> Alloc(h, Star(OrderedPair(h[s].position.x, h[s].position.y),
                         OrderedPair(h[s].velocity.x, h[s].velocity.y),
                         OrderedPair(h[s].acceleration.x, h[s].acceleration.y),
                         h[s].mass, h[s].radius, h[s].red, h[s].green, h[s].blue)),
     s |-> Len(h) + 1]

RECURSIVE CopyFrom(_, _, _)
\* copyUniverse's loop from index k on: acc = [h, stars]
CopyFrom(acc, stars, k) ==
    IF k > Len(stars) THEN acc
    ELSE LET c == copyStars(acc.h, stars[k])
         IN CopyFrom([h |-> c.h, stars |-> Append(acc.stars, c.s)], stars, k + 1)

\* returns the heap, the universes and the new *Universe
copyUniverse(h, us, currentUniverse) ==
    LET c == CopyFrom([h |-> h, stars |-> << >>], us[currentUniverse].stars, 1)
    IN [h |-> c.h,
        us |-> Append(us, [width |-> us[currentUniverse].width, stars |-> c.stars]),
        u |-> Len(us) + 1]

\* updateUniverse's loop body, lines 30-32: the locals it sets
StarLocals(h, t, s, th) ==
    [oldAcceleration |-> h[s].acceleration,
     oldVelocity |-> h[s].velocity,
     netForce |-> CalculateNetForce(h, t, Root, s, th)]

\* updateUniverse's loop body, lines 33-39: s is also newUniverse.stars[i]
StoreStar(h, s, loc, timeStep) ==
    LET newAcceleration == OrderedPair(Div(loc.netForce.x * Scale, h[s].mass),
                                       Div(loc.netForce.y * Scale, h[s].mass))
        h1 == [h EXCEPT ![s].acceleration = newAcceleration]
        h2 == [h1 EXCEPT ![s].velocity = UpdateVelocity(h1[s], loc.oldAcceleration, timeStep)]
    IN [h2 EXCEPT ![s].position =
            UpdatePosition(h2[s], loc.oldAcceleration, loc.oldVelocity, timeStep)]

RECURSIVE UpdateFrom(_, _, _, _, _, _)
\* updateUniverse's loop from index k on; ok is FALSE when line 32 panics
UpdateFrom(h, t, stars, k, timeStep, th) ==
    IF k > Len(stars) THEN [h |-> h, ok |-> TRUE]
    ELSE IF t[Root].star = Nil THEN [h |-> h, ok |-> FALSE]
    ELSE UpdateFrom(StoreStar(h, stars[k], StarLocals(h, t, stars[k], th), timeStep),
                    t, stars, k + 1, timeStep, th)

\* the whole call updateUniverse(currentUniverse, time, theta): the heap and
\* the universes after it, the *Universe it returns, ok FALSE when it panics
updateUniverse(h, us, currentUniverse, timeStep, th) ==
    LET c == copyUniverse(h, us, currentUniverse)
        st == GenerateQuadTree(c.h, c.us[TreeSource(currentUniverse, c.u)])
        r == UpdateFrom(st.h, st.t, c.us[c.u].stars, 1, timeStep, th)
    IN [h |-> r.h, us |-> c.us, u |-> c.u, ok |-> r.ok]

\* a driver that advances the first snapshot in every iteration
StepSourceFirst(tp, k) == tp[1]

\* which universe BarnesHut hands to updateUniverse in iteration k (line 16)
StepSource(tp, k) == tp[k]

\* the values of the bodies of the universe u, in order
Bodies(h, us, u) == [k \in 1..Len(us[u].stars) |-> h[us[u].stars[k]]]

----------------------------------------------------------------------------
(* Inputs. *)

\* the universe's width: 4.0
Width == 4 * Scale

Masses == {Scale, 2 * Scale}

Thetas == {0, Scale \div 2, 2 * Scale}

Times == {Scale}

Point(px, py) == OrderedPair(px * Scale, py * Scale)

Still(p, m) == Star(p, ZeroPair, ZeroPair, m, 0, 0, 0, 0)

\* the bodies the tree is built from: inside the root square (two of them at
\* one position, one off the grid), on its far edge and outside it, near and
\* far
TreeBodies ==
    {Still(Point(0, 0), Scale),
     Still(Point(0, 0), 2 * Scale),
     Still(Point(2, 2), Scale),
     Still(Point(3, 3), 2 * Scale),
     Still(OrderedPair((7 * Scale) \div 2, (7 * Scale) \div 2), Scale),
     Still(Point(0, 4), 2 * Scale),
     Still(Point(-20, 2), Scale)}

\* two bodies that share a position, two approaching, one leaving the square,
\* one outside it
MovingBodies ==
    {Still(Point(1, 1), Scale),
     Star(Point(1, 1), Point(1, 0), ZeroPair, 2 * Scale, 0, 0, 0, 0),
     Star(Point(3, 1), Point(-1, 0), Point(0, 1), Scale, 0, 0, 0, 0),
     Star(Point(3, 3), Point(1, 1), ZeroPair, 2 * Scale, 0, 0, 0, 0),
     Still(Point(-1, 2), Scale)}

\* body k of an input universe: radius and colour tell the bodies apart
Tagged(b, k) == [b EXCEPT !.radius = k * Scale, !.red = k, !.green = 10 + k, !.blue = 20 + k]

InputUniverses(bodies, maxStars) ==
    UNION {[1..n -> bodies] : n \in 0..maxStars}

----------------------------------------------------------------------------
(* The call BarnesHut(initialUniverse, numGens, time, theta). *)

NoTree == [p \in {} |-> Nil]

NumStars == Len(universes[initialUniverse].stars)

\* updateUniverse's argument currentUniverse in the running iteration
CurrentUniverse == StepSource(timePoints, i)

\* ReadUniverse has not been called
NoRead ==
    /\ fileLines = << >>
    /\ lineType = 0
    /\ currentStar = << >>
    /\ universe = [width |-> 0, stars |-> << >>]
    /\ readResult = << >>
    /\ readPc = "idle"

\* no sandpile function has been called
NoSandpile ==
    /\ currentBoard = << >>
    /\ numProcs = 0
    /\ finalBoards = << >>
    /\ interval = 0
    /\ stable = FALSE
    /\ cell = <<0, 0>>
    /\ workers = << >>
    /\ finished = 0
    /\ sandPc = "idle"
    /\ startBoard = << >>

\* lines 12-13, for an input universe with the bodies bs
InitWith(bs, gens) ==
    /\ NoSandpile
    /\ NoRead
    /\ heap = [k \in 1..Len(bs) |-> Tagged(bs[k], k)]
    /\ universes = <<[width |-> Width, stars |-> [k \in 1..Len(bs) |-> k]]>>
    /\ initialUniverse = 1
    /\ numGens = gens
    /\ time \in Times
    /\ theta \in Thetas
    /\ timePoints = [k \in 1..(gens + 1) |-> IF k = 1 THEN 1 ELSE Nil]
    /\ i = 1
    /\ pc = "for"
    /\ newUniverse = Nil
    /\ tree = NoTree
    /\ inserted = 0
    /\ updated = << >>
    /\ locals = << >>
    /\ created = <<[k \in 1..Len(bs) |-> Tagged(bs[k], k)]>>

Init ==
    \E bs \in InputUniverses(MovingBodies, MaxMoving), gens \in 0..MaxGens :
        InitWith(bs, gens)

InitTree ==
    \E bs \in InputUniverses(TreeBodies, MaxStars) : InitWith(bs, 1)

\* line 15 holds, line 16 calls updateUniverse: lines 25 and 83-84
CallUpdateUniverse ==
    /\ pc = "for"
    /\ i < numGens + 1
    /\ LET c == copyUniverse(heap, universes, CurrentUniverse)
       IN /\ heap' = c.h
          /\ universes' = c.us
          /\ newUniverse' = c.u
          /\ tree' = NewQuadTree(c.us[TreeSource(CurrentUniverse, c.u)].width)
    /\ inserted' = 0
    /\ pc' = "tree"
    /\ UNCHANGED <<initialUniverse, numGens, time, theta, timePoints, i,
                   updated, locals, created>>
    /\ UNCHANGED <<sandVars, readVars>>

\* one iteration of GenerateQuadTree's loop, lines 86-88
InsertNext ==
    /\ pc = "tree"
    /\ inserted < NumStars
    /\ LET src == universes[TreeSource(CurrentUniverse, newUniverse)]
           st == insertStar([h |-> heap, t |-> tree], Root, src.stars[inserted + 1])
       IN /\ heap' = st.h
          /\ tree' = st.t
    /\ inserted' = inserted + 1
    /\ UNCHANGED <<universes, initialUniverse, numGens, time, theta, timePoints,
                   i, pc, newUniverse, updated, locals, created>>
    /\ UNCHANGED <<sandVars, readVars>>

\* GenerateQuadTree returns, line 89
TreeBuilt ==
    /\ pc = "tree"
    /\ inserted = NumStars
    /\ pc' = "stars"
    /\ updated' = << >>
    /\ UNCHANGED <<heap, universes, initialUniverse, numGens, time, theta,
                   timePoints, i, newUniverse, tree, inserted, locals, created>>
    /\ UNCHANGED <<sandVars, readVars>>

\* the index the loop of line 28 takes next
NextIndex == Len(updated) + 1

\* the indices whose iteration has finished
Done == {updated[k] : k \in 1..Len(updated)}

\* one iteration of updateUniverse's loop, lines 28-40
UpdateStar ==
    /\ pc = "stars"
    /\ NextIndex <= NumStars
    /\ tree[Root].star # Nil
    /\ LET s == universes[newUniverse].stars[NextIndex]
       IN heap' = StoreStar(heap, s, StarLocals(heap, tree, s, theta), time)
    /\ updated' = Append(updated, NextIndex)
    /\ UNCHANGED <<universes, initialUniverse, numGens, time, theta, timePoints,
                   i, pc, newUniverse, tree, inserted, locals, created>>
    /\ UNCHANGED <<sandVars, readVars>>

\* a loop that queries the tree even when it has no iteration to run
NilDereferenceAlways ==
    /\ pc = "stars"
    /\ tree[Root].star = Nil
    /\ pc' = "panic"
    /\ UNCHANGED <<heap, universes, initialUniverse, numGens, time, theta,
                   timePoints, i, newUniverse, tree, inserted, updated, locals, created>>
    /\ UNCHANGED <<sandVars, readVars>>

\* line 32 on a root without a star: computeDistance dereferences nil
NilDereference ==
    /\ pc = "stars"
    /\ Len(updated) < NumStars
    /\ tree[Root].star = Nil
    /\ pc' = "panic"
    /\ UNCHANGED <<heap, universes, initialUniverse, numGens, time, theta,
                   timePoints, i, newUniverse, tree, inserted, updated, locals, created>>
    /\ UNCHANGED <<sandVars, readVars>>

\* updateUniverse returns, line 41, and line 16 stores the result
ReturnUniverse ==
    /\ pc = "stars"
    /\ Len(updated) = NumStars
    /\ locals = << >>
    /\ timePoints' = [timePoints EXCEPT ![i + 1] = newUniverse]
    /\ created' = Append(created, Bodies(heap, universes, newUniverse))
    /\ i' = i + 1
    /\ pc' = "for"
    /\ newUniverse' = Nil
    /\ tree' = NoTree
    /\ UNCHANGED <<heap, universes, initialUniverse, numGens, time, theta,
                   inserted, updated, locals>>
    /\ UNCHANGED <<sandVars, readVars>>

\* line 15 fails, line 18 returns timePoints
Return ==
    /\ pc = "for"
    /\ ~(i < numGens + 1)
    /\ pc' = "done"
    /\ UNCHANGED <<heap, universes, initialUniverse, numGens, time, theta,
                   timePoints, i, newUniverse, tree, inserted, updated, locals, created>>
    /\ UNCHANGED <<sandVars, readVars>>

Next ==
    \/ CallUpdateUniverse
    \/ InsertNext
    \/ TreeBuilt
    \/ UpdateStar
    \/ NilDereference
    \/ ReturnUniverse
    \/ Return

Spec == Init /\ [][Next]_vars

SpecTree == InitTree /\ [][Next]_vars

----------------------------------------------------------------------------
(* The loop of updateUniverse run with its iterations in any order and     *)
(* interleaved: an iteration first sets its locals (lines 30-32), later    *)
(* stores its results (lines 33-39).                                       *)

ForceStar(j) ==
    /\ pc = "stars"
    /\ j \notin Done
    /\ j \notin DOMAIN locals
    /\ tree[Root].star # Nil
    /\ locals' = (j :> StarLocals(heap, tree, universes[newUniverse].stars[j], theta)) @@ locals
    /\ UNCHANGED <<heap, universes, initialUniverse, numGens, time, theta, timePoints,
                   i, pc, newUniverse, tree, inserted, updated, created>>
    /\ UNCHANGED <<sandVars, readVars>>

StoreResults(j) ==
    /\ pc = "stars"
    /\ j \in DOMAIN locals
    /\ heap' = StoreStar(heap, universes[newUniverse].stars[j], locals[j], time)
    /\ updated' = Append(updated, j)
    /\ locals' = [k \in DOMAIN locals \ {j} |-> locals[k]]
    /\ UNCHANGED <<universes, initialUniverse, numGens, time, theta, timePoints,
                   i, pc, newUniverse, tree, inserted, created>>
    /\ UNCHANGED <<sandVars, readVars>>

NextAnyOrder ==
    \/ CallUpdateUniverse
    \/ InsertNext
    \/ TreeBuilt
    \/ \E j \in 1..NumStars : ForceStar(j)
    \/ \E j \in 1..NumStars : StoreResults(j)
    \/ NilDereference
    \/ ReturnUniverse
    \/ Return

SpecAnyOrder == Init /\ [][NextAnyOrder]_vars

----------------------------------------------------------------------------
(* Claims. *)

\* the bodies updateUniverse returns for a universe of width w whose bodies
\* have the values vals; << >> stands for a panic
StepValues(vals, w) ==
    LET r == updateUniverse(vals, <<[width |-> w, stars |-> [k \in 1..Len(vals) |-> k]]>>,
                            1, time, theta)
    IN IF r.ok THEN <<Bodies(r.h, r.us, r.u)>> ELSE << >>

StarIds(u) == {universes[u].stars[k] : k \in 1..Len(universes[u].stars)}

\* C1: when BarnesHut returns, timePoints has numGens+1 elements, element 0
\* is the input universe itself, and element k is what updateUniverse returns
\* for element k-1 (for the values element k-1 had when it was made).
C1_SnapshotSequence ==
    pc = "done" =>
        /\ Len(timePoints) = numGens + 1
        /\ timePoints[1] = initialUniverse
        /\ \A k \in 1..numGens :
              /\ timePoints[k + 1] # Nil
              /\ universes[timePoints[k + 1]].width = universes[initialUniverse].width
              /\ <<created[timePoints[k + 1]]>> =
                     StepValues(created[timePoints[k]], universes[timePoints[k]].width)

\* BarnesHut has returned two generations of a universe whose bodies moved
C1_Witness ==
    /\ pc = "done"
    /\ numGens = 2
    /\ NumStars = 2
    /\ created[timePoints[3]] # created[timePoints[2]]
    /\ created[timePoints[2]] # created[timePoints[1]]

\* the force on a body with the values q, computed in the tree of this step
ForceOnValues(q) ==
    CalculateNetForce(Append(heap, q), tree, Root, Len(heap) + 1, theta)

\* C2: a body the loop has updated has acceleration F/mass, velocity
\* v_old + 1/2 (a_new + a_old) dt and position p_old + v_old dt + 1/2 a_old dt^2,
\* where F is the force on the body in the tree of the previous snapshot and
\* p_old, v_old, a_old are its values in the previous snapshot.
C2_IntegratorFormulas ==
    pc = "stars" =>
        \A j \in Done :
            LET old == created[CurrentUniverse][j]
                new == heap[universes[newUniverse].stars[j]]
                F == ForceOnValues(old)
                ax == Div(F.x * Scale, old.mass)
                ay == Div(F.y * Scale, old.mass)
            IN /\ new.acceleration = OrderedPair(ax, ay)
               /\ new.velocity.x = old.velocity.x
                                   + Div((ax + old.acceleration.x) * time, 2 * Scale)
               /\ new.velocity.y = old.velocity.y
                                   + Div((ay + old.acceleration.y) * time, 2 * Scale)
               /\ new.position.x = old.position.x + Div(old.velocity.x * time, Scale)
                                   + Div(old.acceleration.x * time * time, 2 * Scale * Scale)
               /\ new.position.y = old.position.y + Div(old.velocity.y * time, Scale)
                                   + Div(old.acceleration.y * time * time, 2 * Scale * Scale)

\* a body has been updated whose acceleration, velocity and position all changed
C2_Witness ==
    /\ pc = "stars"
    /\ \E j \in Done :
          LET old == created[CurrentUniverse][j]
              new == heap[universes[newUniverse].stars[j]]
          IN /\ new.acceleration # old.acceleration
             /\ old.acceleration # ZeroPair
             /\ new.velocity # old.velocity
             /\ new.position # old.position

\* C6: no *Star belongs to two universes: the snapshots, the universe under
\* construction and the input share no body object.
C6_NoSharedBodies ==
    \A u, v \in 1..Len(universes) : u # v => StarIds(u) \cap StarIds(v) = {}

\* three snapshots of two bodies are held
C6_Witness ==
    /\ pc = "done"
    /\ numGens = 2
    /\ NumStars = 2
    /\ Cardinality(UNION {StarIds(timePoints[k]) : k \in 1..3}) = 6

\* C7: every universe ever made (the input and the snapshots) holds the body
\* values it had when it was made.
C7_SnapshotsUnchanged ==
    \A u \in 1..Len(created) : Bodies(heap, universes, u) = created[u]

\* C8: when every iteration of the loop has finished, in whatever order and
\* interleaving, the new universe holds what the loop run in index order
\* gives; and a step of an iteration changes no Star but its own.
C8_ResultOfSequentialLoop ==
    (pc = "stars" /\ Len(updated) = NumStars) =>
        <<Bodies(heap, universes, newUniverse)>> =
            StepValues(created[CurrentUniverse], universes[CurrentUniverse].width)

C8_WritesOwnSlot ==
    \A j \in 1..NumStars :
        (pc = "stars" /\ pc' = "stars" /\ updated' = Append(updated, j)) =>
            \A s \in 1..Len(heap) :
                s # universes[newUniverse].stars[j] => heap'[s] = heap[s]

C8_OrderIndependent == []C8_ResultOfSequentialLoop /\ [][C8_WritesOwnSlot]_vars

\* the loop has finished after running its iterations against the index
\* order, and the bodies attract each other
C8_Witness ==
    /\ pc = "stars"
    /\ NumStars = 2
    /\ updated = <<2, 1>>
    /\ \A j \in 1..2 : heap[universes[newUniverse].stars[j]].acceleration # ZeroPair

\* the stars GenerateQuadTree inserts in this step, and their values at its start
TreeStars == universes[CurrentUniverse].stars

Orig(k) == created[CurrentUniverse][k]

InRoot(k) == inRange(Orig(k).position, Quadrant(0, 0, universes[CurrentUniverse].width))

\* the first n bodies are at n different positions
DistinctUpTo(n) == \A a, b \in 1..n : a # b => Orig(a).position # Orig(b).position

InsideUpTo(n) == \A a \in 1..n : InRoot(a)

RECURSIVE SumMass(_)
\* the masses of the first n bodies, added up
SumMass(n) == IF n = 0 THEN 0 ELSE SumMass(n - 1) + Orig(n).mass

RECURSIVE SumMassInside(_)
SumMassInside(n) ==
    IF n = 0 THEN 0 ELSE SumMassInside(n - 1) + (IF InRoot(n) THEN Orig(n).mass ELSE 0)

\* the mass a node holds: its body's or its aggregate's, zero when empty
MassOf(node) == IF tree[node].star = Nil THEN 0 ELSE heap[tree[node].star].mass

ChildrenMass(node) ==
    MassOf(Child(node, 1)) + MassOf(Child(node, 2)) + MassOf(Child(node, 3)) + MassOf(Child(node, 4))

TreeMassesAddUp ==
    /\ MassOf(Root) = SumMass(inserted)
    /\ \A node \in DOMAIN tree : tree[node].children => MassOf(node) = ChildrenMass(node)

\* C3: for bodies at different positions, after every insertion the root
\* holds the mass of all bodies inserted and every internal node the mass of
\* its four children.
C3_MassesAddUpAnywhere ==
    (pc \in {"tree", "stars"} /\ DistinctUpTo(inserted)) => TreeMassesAddUp

\* the masses do add up when every body inserted is inside the root square
MassesAddUpInside ==
    (pc \in {"tree", "stars"} /\ DistinctUpTo(inserted) /\ InsideUpTo(inserted))
        => TreeMassesAddUp

\* three bodies inside the square are in a tree with an internal node below
\* the root
NestedTreeInside ==
    /\ pc = "tree"
    /\ inserted = 3
    /\ DistinctUpTo(3)
    /\ InsideUpTo(3)
    /\ \E node \in DOMAIN tree : node # Root /\ tree[node].children

IsPrefix(a, b) == Len(a) <= Len(b) /\ SubSeq(b, 1, Len(a)) = a

\* the leaves whose body is at the position pos
HoldingLeaves(pos) ==
    {node \in DOMAIN tree :
        /\ ~tree[node].children
        /\ tree[node].star # Nil
        /\ heap[tree[node].star].position = pos}

\* the node is the leaf that holds the body at pos or one of its ancestors
Includes(node, pos) == \E leaf \in HoldingLeaves(pos) : IsPrefix(node, leaf)

\* the bodies whose iteration has not run, and the star the iteration queries
Pending == (1..NumStars) \ Done

Query(j) == universes[newUniverse].stars[j]

Sources(j) == SourcesUsed(heap, tree, Root, Query(j), theta)

NoSelfForce ==
    \A j \in Pending :
        \A n \in 1..Len(Sources(j)) : ~Includes(Sources(j)[n], Orig(j).position)

\* C4: for every theta, no node that holds the query body or counts it in its
\* aggregate is a source of the force on it.
C4_NoSelfForceAnyTheta ==
    (pc = "stars" /\ tree[Root].star # Nil) => NoSelfForce

\* no body is a source of its own force when theta <= 0.7 and every body is
\* inside the root square
NoSelfForceSmallThetaInside ==
    (pc = "stars" /\ tree[Root].star # Nil /\ 10 * theta <= 7 * Scale /\ InsideUpTo(NumStars))
        => NoSelfForce

\* with theta = 0.5 an internal node is the single source of a far body's
\* force
AggregateUsedInside ==
    /\ pc = "stars"
    /\ 2 * theta = Scale
    /\ InsideUpTo(NumStars)
    /\ \E j \in Pending : \E n \in 1..Len(Sources(j)) : tree[Sources(j)[n]].children

RECURSIVE DirectSum(_, _)
\* the forces on body j of the bodies k..NumStars other than j, added up
DirectSum(j, k) ==
    IF k > NumStars THEN ZeroPair
    ELSE LET rest == DirectSum(j, k + 1)
             f == computeGravitationalForce(Orig(k), Orig(j), computeDistance(Orig(k), Orig(j)))
         IN IF k = j THEN rest ELSE OrderedPair(f.x + rest.x, f.y + rest.y)

\* C5: with theta = 0 the force on a body is the direct sum over the other
\* bodies: the sources are the leaves of the other bodies, each once.  Stated
\* for bodies at different positions inside the root square.
C5_ThetaZeroIsDirectSum ==
    (/\ pc = "stars"
     /\ theta = 0
     /\ tree[Root].star # Nil
     /\ DistinctUpTo(NumStars)
     /\ InsideUpTo(NumStars)) =>
        \A j \in Pending :
            /\ CalculateNetForce(heap, tree, Root, Query(j), theta) = DirectSum(j, 1)
            /\ Len(Sources(j)) = NumStars - 1
            /\ {tree[Sources(j)[n]].star : n \in 1..Len(Sources(j))}
                   = {TreeStars[k] : k \in (1..NumStars) \ {j}}

\* C9: bodies inserted at one position leave the root a leaf that holds the
\* first of them with the sum of their masses.
C9_MergeAddsMass ==
    (/\ pc \in {"tree", "stars"}
     /\ inserted >= 1
     /\ \A k \in 1..inserted : Orig(k).position = Orig(1).position) =>
        /\ ~tree[Root].children
        /\ tree[Root].star = TreeStars[1]
        /\ MassOf(Root) = SumMass(inserted)

\* C10: no node holds a body that lies outside the root square, and the root
\* holds no more mass than the bodies inside the square have.
C10_OutsideBodiesIgnored ==
    pc \in {"tree", "stars"} =>
        /\ \A node \in DOMAIN tree : \A k \in 1..inserted :
              ~InRoot(k) => tree[node].star # TreeStars[k]
        /\ MassOf(Root) <= SumMassInside(inserted)

\* C11: BarnesHut never fails at run time: it does not dereference nil, and
\* no force query starts at a root that has no representative body.
C11_NoRuntimeFailure ==
    /\ pc # "panic"
    /\ (pc = "stars" /\ Pending # {}) => tree[Root].star # Nil

----------------------------------------------------------------------------
(* Where insertIntoChild puts a body that is on a midline. *)

\* the leaves below the root that hold a body
BodyLeaves ==
    {node \in DOMAIN tree : node # Root /\ ~tree[node].children /\ tree[node].star # Nil}

Ancestor(node, k) == SubSeq(node, 1, k - 1)

\* the midlines of a node's square
MidX(node) == tree[node].sector.x + Div(tree[node].sector.width, 2)

MidY(node) == tree[node].sector.y + Div(tree[node].sector.width, 2)

PositionAt(node) == heap[tree[node].star].position

\* children 1..4 are NW, NE, SW, SE
West == {1, 3}

East == {2, 4}

South == {3, 4}

North == {1, 2}

\* the body at the centre of the root square, if one has been put below the root
CentreLeaves ==
    {node \in BodyLeaves : PositionAt(node) = OrderedPair(MidX(Root), MidY(Root))}

CentreInserted ==
    /\ tree[Root].children
    /\ \E k \in 1..inserted : Orig(k).position = OrderedPair(MidX(Root), MidY(Root))

----------------------------------------------------------------------------
(* Aggregates of internal nodes. *)

\* body k is held by a leaf of the node's subtree
InSubtree(node, k) ==
    \E leaf \in DOMAIN tree :
        /\ IsPrefix(node, leaf)
        /\ ~tree[leaf].children
        /\ tree[leaf].star = TreeStars[k]

RECURSIVE BodySums(_, _)
\* mass, and mass-weighted coordinates, of the bodies 1..k of the node's
\* subtree, added up
BodySums(node, k) ==
    IF k = 0 THEN [m |-> 0, x |-> 0, y |-> 0, n |-> 0]
    ELSE LET rest == BodySums(node, k - 1)
             b == heap[TreeStars[k]]
         IN IF InSubtree(node, k)
            THEN [m |-> rest.m + b.mass,
                  x |-> rest.x + b.position.x * b.mass,
                  y |-> rest.y + b.position.y * b.mass,
                  n |-> rest.n + 1]
            ELSE rest

\* what calculateCenterOfMass adds up over the node's children
ChildSums(node) == SumChildren([h |-> heap, t |-> tree], node, 1, [m |-> 0, x |-> 0, y |-> 0])

Abs(v) == IF v < 0 THEN -v ELSE v

\* the aggregate's position is the quotient of the sums, up to the rounding of
\* n quotients
IsMean(node, sums, n) ==
    LET agg == heap[tree[node].star]
    IN /\ agg.mass = sums.m
       /\ Abs(agg.position.x * agg.mass - sums.x) <= n * agg.mass
       /\ Abs(agg.position.y * agg.mass - sums.y) <= n * agg.mass

InternalNodes == {node \in DOMAIN tree : tree[node].children}

\* C13: for bodies at different positions inside the root square, every
\* internal node's aggregate is the mass-weighted mean of the bodies of its
\* subtree, and is what calculateCenterOfMass computes from its children
\* (both up to rounding: one unit for each body of the subtree).
C13_AggregateIsWeightedMean ==
    (pc \in {"tree", "stars"} /\ DistinctUpTo(inserted) /\ InsideUpTo(inserted)) =>
        \A node \in InternalNodes :
            LET sums == BodySums(node, inserted)
            IN /\ tree[node].star # Nil
               /\ IsMean(node, sums, sums.n)
               /\ IsMean(node, ChildSums(node), sums.n)

\* three bodies of different masses inside the square: the root's aggregate
\* was recomputed from its children and then updated, and an internal node
\* lies below it
C13_Witness ==
    /\ pc = "tree"
    /\ inserted = 3
    /\ DistinctUpTo(3)
    /\ InsideUpTo(3)
    /\ Orig(1).mass # Orig(3).mass
    /\ \E node \in InternalNodes : node # Root
    /\ \A k \in 1..3 : PositionAt(Root) # Orig(k).position

----------------------------------------------------------------------------
(* The call BarnesHut as one operator, for runs after the first. *)

RECURSIVE BarnesHutFrom(_, _, _, _, _)
\* the loop of lines 15-17 from iteration k on: r = [h, us, tp, ok], tp the
\* timePoints filled so far, ok FALSE when an iteration panics
BarnesHutFrom(r, k, gens, timeStep, th) ==
    IF k > gens \/ ~r.ok THEN r
    ELSE LET s == updateUniverse(r.h, r.us, StepSource(r.tp, k), timeStep, th)
         IN BarnesHutFrom([h |-> s.h, us |-> s.us, tp |-> Append(r.tp, s.u), ok |-> s.ok],
                          k + 1, gens, timeStep, th)

BarnesHut(h, us, u0, gens, timeStep, th) ==
    BarnesHutFrom([h |-> h, us |-> us, tp |-> <<u0>>, ok |-> TRUE], 1, gens, timeStep, th)

\* a second call with the arguments of the one that has returned
SecondRun == BarnesHut(heap, universes, initialUniverse, numGens, time, theta)

\* C14: a second run of BarnesHut on the same initial universe, with the same
\* numGens, time and theta, returns a sequence equal to the first, element by
\* element, in every field of every body.
C14_SecondRunEqual ==
    pc = "done" =>
        /\ SecondRun.ok
        /\ Len(SecondRun.tp) = Len(timePoints)
        /\ \A k \in 1..Len(timePoints) :
              Bodies(SecondRun.h, SecondRun.us, SecondRun.tp[k])
                  = Bodies(heap, universes, timePoints[k])

----------------------------------------------------------------------------
(* What a step keeps. *)

\* radius and colour of a body
Look(b) == <<b.radius, b.red, b.green, b.blue>>

\* the universe u has the input's width and number of bodies, and body k of
\* it looks like body k of the input
SameShape(u) ==
    /\ universes[u].width = universes[initialUniverse].width
    /\ Len(universes[u].stars) = Len(universes[initialUniverse].stars)
    /\ \A k \in 1..Len(universes[u].stars) :
          Look(heap[universes[u].stars[k]]) = Look(created[initialUniverse][k])

\* C15: every snapshot BarnesHut returns has the input's width and number of
\* bodies, and its body k has the radius and colour of the input's body k.
C15_ShapePreserved ==
    pc = "done" => \A k \in 1..Len(timePoints) : SameShape(timePoints[k])

\* two generations of two bodies have been returned
C15_Witness ==
    /\ pc = "done"
    /\ numGens = 2
    /\ NumStars = 2
    /\ timePoints[3] # initialUniverse
    /\ Look(heap[universes[timePoints[3]].stars[1]]) # Look(heap[universes[timePoints[3]].stars[2]])

\* the universe u has no bodies and the input's width
EmptyLikeInput(u) ==
    /\ u # Nil
    /\ universes[u].stars = << >>
    /\ universes[u].width = universes[initialUniverse].width

\* C16: for an input without bodies BarnesHut does not fail or stop before
\* it returns, and returns numGens+1 universes without bodies, of the input's
\* width.
C16_EmptyUniverse ==
    NumStars = 0 =>
        /\ pc # "panic"
        /\ pc # "done" => ENABLED Next
        /\ pc = "done" =>
              /\ Len(timePoints) = numGens + 1
              /\ \A k \in 1..(numGens + 1) : EmptyLikeInput(timePoints[k])

\* BarnesHut has returned two generations of the empty universe
C16_Witness ==
    /\ pc = "done"
    /\ NumStars = 0
    /\ numGens = 2
    /\ timePoints[3] # timePoints[2]
    /\ tree = NoTree

----------------------------------------------------------------------------
(* What CalculateNetForce does at the nodes it visits. *)

Visited(j) == Visits(heap, tree, Root, Query(j), theta)

DistanceTo(node, j) == computeDistance(heap[tree[node].star], heap[Query(j)])

RatioAt(node, j) == Div(tree[node].sector.width * Scale, DistanceTo(node, j))

\* line 194 returns at the node
Skips(node, j) == SkipNode(DistanceTo(node, j), tree[node].star, Query(j))

\* lines 200-204 add the node's own force
Adds(node, j) ==
    ~Skips(node, j) /\ UseNode(RatioAt(node, j), theta, ~tree[node].children)

HasBodyBelow(node) ==
    tree[node].children /\ \E k \in 1..4 : tree[Child(node, k)].star # Nil

\* lines 206-214 call CalculateNetForce on a child
Descends(node, j) ==
    ~Skips(node, j) /\ OpenNode(RatioAt(node, j), theta) /\ HasBodyBelow(node)

\* no node is a source twice, and no source lies below another
SourcesApart(j) ==
    LET src == Sources(j)
    IN \A a, b \in 1..Len(src) : a # b => ~IsPrefix(src[a], src[b])

\* C19: at every node CalculateNetForce visits it either adds the node's own
\* force or goes into its children, exactly one of the two, and no body is
\* counted twice.
C19_ExactlyOneBranch ==
    (pc = "stars" /\ tree[Root].star # Nil) =>
        \A j \in Pending :
            LET seen == Visited(j)
            IN /\ \A n \in 1..Len(seen) : Adds(seen[n], j) # Descends(seen[n], j)
               /\ SourcesApart(j)

\* C19, amended: at every visited node at most one of the two happens, and
\* neither only where the distance is 0 (line 194) or the node is opened and
\* all its children are empty; no body is counted twice.
C19_AtMostOneBranch ==
    (pc = "stars" /\ tree[Root].star # Nil) =>
        \A j \in Pending :
            LET seen == Visited(j)
            IN /\ \A n \in 1..Len(seen) :
                     /\ ~(Adds(seen[n], j) /\ Descends(seen[n], j))
                     /\ (~Adds(seen[n], j) /\ ~Descends(seen[n], j)) =>
                            \/ DistanceTo(seen[n], j) = 0
                            \/ (tree[seen[n]].children /\ ~HasBodyBelow(seen[n]))
               /\ SourcesApart(j)

\* among the queries of one step, one adds the force of an internal node
\* after going into the root, and one adds the force of a leaf whose ratio is
\* not below theta
C19_Witness ==
    /\ pc = "stars"
    /\ tree[Root].star # Nil
    /\ \E j \in Pending :
          /\ Descends(Root, j)
          /\ \E n \in 1..Len(Visited(j)) :
                tree[Visited(j)[n]].children /\ Adds(Visited(j)[n], j)
    /\ \E j \in Pending : \E n \in 1..Len(Visited(j)) :
          /\ ~tree[Visited(j)[n]].children
          /\ Adds(Visited(j)[n], j)
          /\ OpenNode(RatioAt(Visited(j)[n], j), theta)

----------------------------------------------------------------------------
(* Distance 0 between the query body and a node's representative. *)

\* a visited node at distance 0 is no source, and no node below it is visited
ZeroDistanceStops ==
    (pc = "stars" /\ tree[Root].star # Nil) =>
        \A j \in Pending : \A n \in 1..Len(Visited(j)) :
            DistanceTo(Visited(j)[n], j) = 0 =>
                /\ \A a \in 1..Len(Sources(j)) : Sources(j)[a] # Visited(j)[n]
                /\ \A b \in 1..Len(Visited(j)) :
                      b # n => ~IsPrefix(Visited(j)[n], Visited(j)[b])

\* body j is at the position of another body
SharesPosition(j) ==
    \E k \in 1..NumStars : k # j /\ Orig(k).position = Orig(j).position

\* the tree GenerateQuadTree builds from the bodies of the step when body j
\* has the mass m
TreeIfMass(j, m) ==
    LET h == [created[CurrentUniverse] EXCEPT ![j].mass = m]
    IN GenerateQuadTree(h, [width |-> universes[CurrentUniverse].width,
                            stars |-> [k \in 1..NumStars |-> k]])

NodeMassIf(node, j, m) ==
    LET st == TreeIfMass(j, m)
    IN IF st.t[node].star = Nil THEN 0 ELSE st.h[st.t[node].star].mass

\* the mass the node holds depends on the mass of body j
Counts(node, j) ==
    NodeMassIf(node, j, Orig(j).mass) # NodeMassIf(node, j, Orig(j).mass + Scale)

\* C20: a node at distance 0 from the query body contributes nothing and is
\* not descended into; and the force on a body that shares its position with
\* another one has no source that holds that body or counts its mass.
C20_ZeroDistance ==
    /\ ZeroDistanceStops
    /\ (pc = "stars" /\ tree[Root].star # Nil) =>
          \A j \in Pending :
              SharesPosition(j) =>
                  \A n \in 1..Len(Sources(j)) :
                      /\ ~Includes(Sources(j)[n], Orig(j).position)
                      /\ ~Counts(Sources(j)[n], j)

----------------------------------------------------------------------------
(* Sandpiles: boards. *)

\* bounds of the sandpile model: cells of a board, grains in a cell of an
\* input board, goroutines, rounds of the parallel loop, calls of Topple in a
\* row
MaxCells == 4
MaxGrains == 4
MaxProcs == 2
MaxRounds == 6
MaxTopples == 2

\* finalBoards takes every 500th board
SnapshotEvery == 500

NumRows(b) == Len(b)

NumCols(b) == Len(b[1])

\* a returned board is a record: own says that its rows are storage of its
\* own, rows is what that storage holds.  A board that shares the rows of
\* currentBoard shows whatever currentBoard holds.
copyBoardAlias(b) == [own |-> FALSE, rows |-> << >>]

copyBoard(b) ==
    [own |-> TRUE, rows |-> [r \in 1..Len(b) |-> [c \in 1..Len(b[r]) |-> b[r][c]]]]

\* the cells read through a returned board
BoardOf(ref) == IF ref.own THEN ref.rows ELSE currentBoard

\* the test of the loops for a cell to topple
NeedsTopple(v) == v >= 4

\* a Topple without the test of line 292
ToppleUntested(b, row, col) ==
    LET b0 == [b EXCEPT ![row][col] = @ - 4]
        b1 == IF row > 1 THEN [b0 EXCEPT ![row - 1][col] = @ + 1] ELSE b0
        b2 == IF row < NumRows(b) THEN [b1 EXCEPT ![row + 1][col] = @ + 1] ELSE b1
        b3 == IF col > 1 THEN [b2 EXCEPT ![row][col - 1] = @ + 1] ELSE b2
    IN IF col < NumCols(b) THEN [b3 EXCEPT ![row][col + 1] = @ + 1] ELSE b3

Topple(b, row, col) ==
    IF b[row][col] < 4 THEN b
    ELSE LET b0 == [b EXCEPT ![row][col] = @ - 4]
             b1 == IF row > 1 THEN [b0 EXCEPT ![row - 1][col] = @ + 1] ELSE b0
             b2 == IF row < NumRows(b) THEN [b1 EXCEPT ![row + 1][col] = @ + 1] ELSE b1
             b3 == IF col > 1 THEN [b2 EXCEPT ![row][col - 1] = @ + 1] ELSE b2
         IN IF col < NumCols(b) THEN [b3 EXCEPT ![row][col + 1] = @ + 1] ELSE b3

\* the cell after rc in the order of the nested range loops
NextCell(b, rc) ==
    IF rc[2] < NumCols(b) THEN <<rc[1], rc[2] + 1>> ELSE <<rc[1] + 1, 1>>

\* every cell is below 4
IsStable(b) == \A r \in 1..Len(b) : \A c \in 1..Len(b[r]) : b[r][c] < 4

\* input boards: the empty board and the rectangles of up to MaxCells cells,
\* every cell empty, one short of toppling, or with 4 to MaxGrains grains
Grains == {0, 3} \cup (4..MaxGrains)

Shapes == {rc \in (1..MaxCells) \X (1..MaxCells) : rc[1] * rc[2] <= MaxCells}

Boards == {<< >>} \cup UNION {[1..rc[1] -> [1..rc[2] -> Grains]] : rc \in Shapes}

\* no call of BarnesHut
NoUniverse ==
    /\ heap = << >>
    /\ universes = << >>
    /\ initialUniverse = Nil
    /\ numGens = 0
    /\ time = 0
    /\ theta = 0
    /\ timePoints = << >>
    /\ i = 0
    /\ pc = "idle"
    /\ newUniverse = Nil
    /\ tree = NoTree
    /\ inserted = 0
    /\ updated = << >>
    /\ locals = << >>
    /\ created = << >>

----------------------------------------------------------------------------
(* The call SimulateSandpiles(currentBoard). *)

\* lines 8-10
InitSerial ==
    /\ NoUniverse
    /\ NoRead
    /\ currentBoard \in Boards
    /\ startBoard = currentBoard
    /\ finalBoards = <<copyBoard(currentBoard)>>
    /\ interval = 0
    /\ stable = FALSE
    /\ cell = <<0, 0>>
    /\ numProcs = 0
    /\ workers = << >>
    /\ finished = 0
    /\ sandPc = "for"

\* line 15, and the range loops start
BeginPass ==
    /\ sandPc = "for"
    /\ stable' = TRUE
    /\ cell' = <<1, 1>>
    /\ sandPc' = "scan"
    /\ UNCHANGED <<currentBoard, numProcs, finalBoards, interval, workers, finished,
                   startBoard>>
    /\ UNCHANGED <<universeVars, readVars>>

\* lines 18-21 for one cell
ScanCell ==
    /\ sandPc = "scan"
    /\ cell[1] <= NumRows(currentBoard)
    /\ IF NeedsTopple(currentBoard[cell[1]][cell[2]])
       THEN /\ currentBoard' = Topple(currentBoard, cell[1], cell[2])
            /\ stable' = FALSE
       ELSE UNCHANGED <<currentBoard, stable>>
    /\ cell' = NextCell(currentBoard, cell)
    /\ UNCHANGED <<numProcs, finalBoards, interval, workers, finished, sandPc, startBoard>>
    /\ UNCHANGED <<universeVars, readVars>>

\* the range loops end: lines 24-32
EndPass ==
    /\ sandPc = "scan"
    /\ cell[1] > NumRows(currentBoard)
    /\ interval' = interval + 1
    /\ finalBoards' = IF (interval + 1) % SnapshotEvery = 0
                      THEN Append(finalBoards, copyBoard(currentBoard))
                      ELSE finalBoards
    /\ sandPc' = IF stable THEN "return" ELSE "for"
    /\ UNCHANGED <<currentBoard, numProcs, stable, cell, workers, finished, startBoard>>
    /\ UNCHANGED <<universeVars, readVars>>

\* lines 34-35 of SimulateSandpiles, lines 57-58 of SimulateSandpilesParallel
ReturnBoards ==
    /\ sandPc = "return"
    /\ finalBoards' = Append(finalBoards, copyBoard(currentBoard))
    /\ sandPc' = "done"
    /\ UNCHANGED <<currentBoard, numProcs, interval, stable, cell, workers, finished,
                   startBoard>>
    /\ UNCHANGED <<universeVars, readVars>>

NextSerial ==
    \/ BeginPass
    \/ ScanCell
    \/ EndPass
    \/ ReturnBoards

\* the one goroutine of SimulateSandpiles keeps running
SpecSerial == InitSerial /\ [][NextSerial]_vars /\ WF_vars(NextSerial)

----------------------------------------------------------------------------
(* The call SimulateSandpilesParallel(currentBoard, numProcs).  A goroutine
   of toppleChunk is a record: at is its position, r and c the cell of its
   loops, end the row its chunk stops before, k the access of Topple it is
   at and tmp the value it read for that access.  Rows and columns count
   from 1.  The goroutines share the board without synchronisation, so
   every read and every write of a cell is a step of its own. *)

\* the passes of SimulateSandpiles on b; the boards it returns
RECURSIVE ScanFrom(_, _)
ScanFrom(st, rc) ==
    IF rc[1] > NumRows(st.b) THEN st
    ELSE IF NeedsTopple(st.b[rc[1]][rc[2]])
         THEN ScanFrom([b |-> Topple(st.b, rc[1], rc[2]), stable |-> FALSE], NextCell(st.b, rc))
         ELSE ScanFrom(st, NextCell(st.b, rc))

RECURSIVE SerialLoop(_, _, _)
SerialLoop(b, boards, n) ==
    LET pass == ScanFrom([b |-> b, stable |-> TRUE], <<1, 1>>)
        kept == IF (n + 1) % SnapshotEvery = 0
                THEN Append(boards, copyBoard(pass.b))
                ELSE boards
    IN IF pass.stable THEN Append(kept, copyBoard(pass.b))
       ELSE SerialLoop(pass.b, kept, n + 1)

SimulateSandpiles(b) == SerialLoop(b, <<copyBoard(b)>>, 0)

\* lines 21-27 for the goroutine i of n (i counts from 1)
ChunkSize(n, rows) == rows \div n

StartIndex(g, n, rows) == (g - 1) * ChunkSize(n, rows)

EndIndex(g, n, rows) ==
    IF g = n THEN rows ELSE StartIndex(g, n, rows) + ChunkSize(n, rows)

\* the goroutine at the cell rc of its loops, or past them
WorkerAt(w, rc) ==
    IF rc[1] > w.end
    THEN [at |-> "send", r |-> 0, c |-> 0, end |-> w.end, k |-> 0, tmp |-> 0]
    ELSE [at |-> "test", r |-> rc[1], c |-> rc[2], end |-> w.end, k |-> 0, tmp |-> 0]

\* the accesses of Topple(row, col) in order: the cell, then the neighbours
\* lines 301-315 reach; each is the cell it changes and by how much
Accesses(b, row, col) ==
    LET own == << <<row, col, 0 - 4>> >>
        a1 == IF row > 1 THEN Append(own, <<row - 1, col, 1>>) ELSE own
        a2 == IF row < NumRows(b) THEN Append(a1, <<row + 1, col, 1>>) ELSE a1
        a3 == IF col > 1 THEN Append(a2, <<row, col - 1, 1>>) ELSE a2
    IN IF col < NumCols(b) THEN Append(a3, <<row, col + 1, 1>>) ELSE a3

\* lines 12-16
InitParallel ==
    /\ NoUniverse
    /\ NoRead
    /\ currentBoard \in Boards
    /\ numProcs \in 1..MaxProcs
    /\ startBoard = currentBoard
    /\ finalBoards = <<copyBoard(currentBoard)>>
    /\ interval = 0
    /\ stable = FALSE
    /\ cell = <<0, 0>>
    /\ workers = << >>
    /\ finished = 0
    /\ sandPc = "spawn"

\* lines 20-30: the goroutines of one round
Spawn ==
    /\ sandPc = "spawn"
    /\ interval < MaxRounds
    /\ workers' = [g \in 1..numProcs |->
                    WorkerAt([end |-> EndIndex(g, numProcs, NumRows(currentBoard))],
                             <<StartIndex(g, numProcs, NumRows(currentBoard)) + 1, 1>>)]
    /\ sandPc' = "wait"
    /\ UNCHANGED <<currentBoard, numProcs, finalBoards, interval, stable, cell, finished,
                   startBoard>>
    /\ UNCHANGED <<universeVars, readVars>>

\* line 67 of toppleChunk: the test of one cell
WorkerTest(g) ==
    /\ workers[g].at = "test"
    /\ workers' = [workers EXCEPT ![g] =
                      IF NeedsTopple(currentBoard[@.r][@.c])
                      THEN [@ EXCEPT !.at = "enter"]
                      ELSE WorkerAt(@, NextCell(currentBoard, <<@.r, @.c>>))]
    /\ UNCHANGED <<currentBoard, numProcs, finalBoards, interval, stable, cell, finished,
                   sandPc, startBoard>>
    /\ UNCHANGED <<universeVars, readVars>>

\* line 292 of Topple: the cell is read again
WorkerEnter(g) ==
    /\ workers[g].at = "enter"
    /\ workers' = [workers EXCEPT ![g] =
                      IF currentBoard[@.r][@.c] < 4
                      THEN WorkerAt(@, NextCell(currentBoard, <<@.r, @.c>>))
                      ELSE [@ EXCEPT !.at = "read", !.k = 1]]
    /\ UNCHANGED <<currentBoard, numProcs, finalBoards, interval, stable, cell, finished,
                   sandPc, startBoard>>
    /\ UNCHANGED <<universeVars, readVars>>

\* the read of b[..][..] -= 4 (line 296) or of a b[..][..]++ (lines 302-314)
WorkerRead(g) ==
    /\ workers[g].at = "read"
    /\ LET w == workers[g]
           a == Accesses(currentBoard, w.r, w.c)[w.k]
       IN workers' = [workers EXCEPT ![g].at = "write", ![g].tmp = currentBoard[a[1]][a[2]]]
    /\ UNCHANGED <<currentBoard, numProcs, finalBoards, interval, stable, cell, finished,
                   sandPc, startBoard>>
    /\ UNCHANGED <<universeVars, readVars>>

\* the write of the same statement, from the value read before
WorkerWrite(g) ==
    /\ workers[g].at = "write"
    /\ LET w == workers[g]
           all == Accesses(currentBoard, w.r, w.c)
           a == all[w.k]
       IN /\ currentBoard' = [currentBoard EXCEPT ![a[1]][a[2]] = w.tmp + a[3]]
          /\ workers' = [workers EXCEPT ![g] =
                            IF w.k < Len(all)
                            THEN [@ EXCEPT !.at = "read", !.k = w.k + 1, !.tmp = 0]
                            ELSE WorkerAt(@, NextCell(currentBoard, <<w.r, w.c>>))]
    /\ UNCHANGED <<numProcs, finalBoards, interval, stable, cell, finished, sandPc,
                   startBoard>>
    /\ UNCHANGED <<universeVars, readVars>>

\* line 72: the channel has room for every goroutine of the round
WorkerSend(g) ==
    /\ workers[g].at = "send"
    /\ finished' = finished + 1
    /\ workers' = [workers EXCEPT ![g].at = "exit"]
    /\ UNCHANGED <<currentBoard, numProcs, finalBoards, interval, stable, cell, sandPc,
                   startBoard>>
    /\ UNCHANGED <<universeVars, readVars>>

\* lines 32-34: numProcs values received
WaitAll ==
    /\ sandPc = "wait"
    /\ finished = numProcs
    /\ finished' = 0
    /\ workers' = << >>
    /\ sandPc' = "check"
    /\ UNCHANGED <<currentBoard, numProcs, finalBoards, interval, stable, cell, startBoard>>
    /\ UNCHANGED <<universeVars, readVars>>

\* lines 36-55
CheckStable ==
    /\ sandPc = "check"
    /\ interval' = interval + 1
    /\ stable' = IsStable(currentBoard)
    /\ finalBoards' = IF (interval + 1) % SnapshotEvery = 0
                      THEN Append(finalBoards, copyBoard(currentBoard))
                      ELSE finalBoards
    /\ sandPc' = IF IsStable(currentBoard) THEN "return" ELSE "spawn"
    /\ UNCHANGED <<currentBoard, numProcs, cell, workers, finished, startBoard>>
    /\ UNCHANGED <<universeVars, readVars>>

\* lines 57-58
ParallelReturn ==
    /\ sandPc = "return"
    /\ numProcs > 0
    /\ finalBoards' = Append(finalBoards, copyBoard(currentBoard))
    /\ sandPc' = "done"
    /\ UNCHANGED <<currentBoard, numProcs, interval, stable, cell, workers, finished,
                   startBoard>>
    /\ UNCHANGED <<universeVars, readVars>>

NextParallel ==
    \/ Spawn
    \/ \E g \in DOMAIN workers : WorkerTest(g)
    \/ \E g \in DOMAIN workers : WorkerEnter(g)
    \/ \E g \in DOMAIN workers : WorkerRead(g)
    \/ \E g \in DOMAIN workers : WorkerWrite(g)
    \/ \E g \in DOMAIN workers : WorkerSend(g)
    \/ WaitAll
    \/ CheckStable
    \/ ParallelReturn

SpecParallel == InitParallel /\ [][NextParallel]_vars

----------------------------------------------------------------------------
(* Claims about the sandpiles. *)

Last(s) == s[Len(s)]

\* the step leaves the board alone or topples one cell that holds 4 or more
OnlyTopples ==
    \/ currentBoard' = currentBoard
    \/ \E r \in 1..NumRows(currentBoard) : \E c \in 1..NumCols(currentBoard) :
          /\ currentBoard[r][c] >= 4
          /\ currentBoard'[r][c] = currentBoard[r][c] - 4
          /\ \A r2 \in 1..NumRows(currentBoard) : \A c2 \in 1..NumCols(currentBoard) :
                <<r2, c2>> # <<r, c>> =>
                    currentBoard'[r2][c2] = currentBoard[r2][c2]
                        + (IF (r2 - r) * (r2 - r) + (c2 - c) * (c2 - c) = 1 THEN 1 ELSE 0)

SerialResult ==
    sandPc = "done" =>
        /\ BoardOf(finalBoards[1]) = startBoard
        /\ LET last == BoardOf(Last(finalBoards))
           IN \A r \in 1..Len(last) : \A c \in 1..Len(last[r]) : last[r][c] < 4
        /\ BoardOf(Last(finalBoards)) = currentBoard

\* C18: SimulateSandpiles returns; the first board it returns is the initial
\* board, the last one has every cell below 4, and the board changed by
\* topples of cells with 4 or more grains only.
C18_SerialTerminatesStable ==
    /\ <>(sandPc = "done")
    /\ []SerialResult
    /\ [][OnlyTopples]_vars

\* SimulateSandpiles has returned after three or more passes over a board of
\* two rows and two columns
C18_Witness ==
    /\ sandPc = "done"
    /\ interval >= 3
    /\ NumRows(startBoard) = 2
    /\ NumCols(startBoard) = 2
    /\ BoardOf(Last(finalBoards)) # startBoard
    /\ BoardOf(finalBoards[1]) = startBoard

\* the last board SimulateSandpilesParallel returned has every cell below 4
ParallelLastStable == sandPc = "done" => IsStable(BoardOf(Last(finalBoards)))

\* with one goroutine the last board is the last board of SimulateSandpiles
OneWorkerEqualsSerial ==
    (sandPc = "done" /\ numProcs = 1) =>
        BoardOf(Last(finalBoards)) = Last(SimulateSandpiles(startBoard)).rows

\* C17: under every interleaving of the goroutines the last board
\* SimulateSandpilesParallel returns has every cell below 4 and is the last
\* board SimulateSandpiles returns for the same initial board.
C17_ParallelEqualsSerial ==
    sandPc = "done" =>
        /\ IsStable(BoardOf(Last(finalBoards)))
        /\ BoardOf(Last(finalBoards)) = Last(SimulateSandpiles(startBoard)).rows

----------------------------------------------------------------------------
(* The object of the force query. *)

\* the nodes of the tree whose star is the *Star s
NodesHolding(s) == {node \in DOMAIN tree : tree[node].star = s}

\* C21: while updateUniverse's loop runs, the query of every body j still to
\* be updated is the *Star at index j of the universe the tree was built
\* from, and when that body is in the root square a node of the tree holds
\* that very object, so that node.star == currStar can be true.
C21_QueryIsTreeObject ==
    (pc = "stars" /\ tree[Root].star # Nil) =>
        \A j \in Pending :
            /\ Query(j) = TreeStars[j]
            /\ InRoot(j) /\ DistinctUpTo(NumStars) => NodesHolding(Query(j)) # {}

----------------------------------------------------------------------------
(* Where the bodies are in the tree. *)

\* the nodes without children
Leaves == {node \in DOMAIN tree : ~tree[node].children}

\* every *Star that is a body of a universe
RealStars == UNION {StarIds(u) : u \in 1..Len(universes)}

\* the bodies GenerateQuadTree has inserted whose position is in the
\* quadrant of the node
BodiesIn(node) ==
    {k \in 1..inserted : inRange(heap[TreeStars[k]].position, tree[node].sector)}

\* C22: while and after GenerateQuadTree inserts bodies at distinct positions
\* inside the root square, every inserted body is the star of exactly one
\* leaf, whose quadrant contains the body's position; a leaf has at most one
\* body in its quadrant and holds nothing but a body; a node with children
\* holds no body of a universe.
C22_OneLeafPerBody ==
    (pc \in {"tree", "stars"} /\ DistinctUpTo(inserted) /\ InsideUpTo(inserted)) =>
        /\ \A k \in 1..inserted :
              /\ Cardinality({leaf \in Leaves : tree[leaf].star = TreeStars[k]}) = 1
              /\ \A leaf \in Leaves :
                    tree[leaf].star = TreeStars[k] => k \in BodiesIn(leaf)
        /\ \A leaf \in Leaves :
              /\ Cardinality(BodiesIn(leaf)) <= 1
              /\ tree[leaf].star # Nil =>
                    tree[leaf].star \in {TreeStars[k] : k \in 1..inserted}
        /\ \A node \in InternalNodes : tree[node].star \notin RealStars

\* three bodies at distinct positions inside the square are in the tree, one
\* of them in a leaf three levels below the root
C22_Witness ==
    /\ pc = "stars"
    /\ inserted = 3
    /\ DistinctUpTo(3)
    /\ InsideUpTo(3)
    /\ \E leaf \in Leaves : Len(leaf) >= 3 /\ tree[leaf].star \in RealStars

----------------------------------------------------------------------------
(* The quadrants of the children. *)

\* coordinates at, just below and just above the low edge, the middle and
\* the high edge of a quadrant side that starts at lo and is w wide
EdgeCoords(lo, w) ==
    {lo + d + e : d \in {0, Div(w, 2), w}, e \in {-1, 0, 1}}

\* points on, inside and outside the quadrant q, around all its edges and
\* its two midlines
ProbePoints(q) ==
    {OrderedPair(px, py) : px \in EdgeCoords(q.x, q.width), py \in EdgeCoords(q.y, q.width)}

\* the children of the node whose quadrant contains the point p
ChildrenWith(node, p) == {k \in 1..4 : inRange(p, tree[Child(node, k)].sector)}

\* C23: for every node with children, a point inside the node's quadrant
\* (low edges included, high edges excluded) is inside the quadrant of
\* exactly one of its four children, and a point outside it is inside none.
C23_ChildrenTileParent ==
    \A node \in InternalNodes : \A p \in ProbePoints(tree[node].sector) :
        Cardinality(ChildrenWith(node, p)) =
            (IF inRange(p, tree[node].sector) THEN 1 ELSE 0)

\* the tree has a node with children two levels below the root
C23_Witness ==
    /\ pc = "stars"
    /\ \E node \in InternalNodes : Len(node) = 2

----------------------------------------------------------------------------
(* Calls of Topple on any cell of a board, as TestTopple makes them. *)

InitTopple ==
    /\ NoUniverse
    /\ NoRead
    /\ currentBoard \in Boards \ {<< >>}
    /\ startBoard = currentBoard
    /\ finalBoards = << >>
    /\ interval = 0
    /\ stable = FALSE
    /\ cell = <<0, 0>>
    /\ numProcs = 0
    /\ workers = << >>
    /\ finished = 0
    /\ sandPc = "topple"

\* currentBoard.Topple(row, col); interval counts the calls and cell keeps
\* the arguments of the last one
CallTopple ==
    /\ sandPc = "topple"
    /\ interval < MaxTopples
    /\ \E row \in 1..NumRows(currentBoard), col \in 1..NumCols(currentBoard) :
          /\ currentBoard' = Topple(currentBoard, row, col)
          /\ cell' = <<row, col>>
    /\ interval' = interval + 1
    /\ UNCHANGED <<numProcs, finalBoards, stable, workers, finished, sandPc, startBoard>>
    /\ UNCHANGED <<universeVars, readVars>>

NextTopple == CallTopple

SpecTopple == InitTopple /\ [][NextTopple]_vars

\* what the call Topple(cell') did to the cell <<r, c>>
ToppleChange(r, c) ==
    IF currentBoard[cell'[1]][cell'[2]] < 4 THEN 0
    ELSE IF <<r, c>> = cell' THEN 0 - 4
    ELSE IF (r - cell'[1]) * (r - cell'[1]) + (c - cell'[2]) * (c - cell'[2]) = 1 THEN 1
    ELSE 0

ToppleEffect ==
    /\ DOMAIN currentBoard' = DOMAIN currentBoard
    /\ \A r \in DOMAIN currentBoard :
          /\ DOMAIN currentBoard'[r] = DOMAIN currentBoard[r]
          /\ \A c \in DOMAIN currentBoard[r] :
                currentBoard'[r][c] = currentBoard[r][c] + ToppleChange(r, c)

\* C24: Topple(row, col) on a cell with 4 or more coins takes 4 from the
\* cell, adds 1 to each orthogonal neighbour on the board and leaves every
\* other cell as it was; on a cell with fewer than 4 coins it changes nothing.
C24_ToppleEffect == [][sandPc = "topple" => ToppleEffect]_vars

\* after two calls of Topple on a board of two rows and two columns, the
\* last one on the corner cell: the corner has lost 4 coins, its two
\* neighbours have one more and the opposite corner is as it was
C24_Witness ==
    /\ sandPc = "topple"
    /\ interval = 2
    /\ NumRows(startBoard) = 2
    /\ NumCols(startBoard) = 2
    /\ cell = <<1, 1>>
    /\ startBoard[1][1] = 4
    /\ currentBoard[1][1] = 0
    /\ currentBoard[1][2] = startBoard[1][2] + 1
    /\ currentBoard[2][1] = startBoard[2][1] + 1
    /\ currentBoard[2][2] = startBoard[2][2]

----------------------------------------------------------------------------
(* ReadUniverse: the lines of the file and their parsers.  A line is what   *)
(* strings.Split(line, ",") makes of it: a sequence of tokens; name says    *)
(* that the line starts with ">".  A token is the text of a number (whole   *)
(* tells whether it is the text of an integer) or some other text.         *)

\* the most lines the scanner returns
MaxLines == 10

IntToken(n) == [num |-> TRUE, whole |-> TRUE, v |-> n * Scale]

\* the text 0.5
HalfToken == [num |-> TRUE, whole |-> FALSE, v |-> Scale \div 2]

\* a text that is no number
BadToken == [num |-> FALSE, whole |-> FALSE, v |-> 0]

NameLine == [name |-> TRUE, parts |-> <<BadToken>>]

Fields(parts) == [name |-> FALSE, parts |-> parts]

\* a name, a colour, a colour with a fraction in it, the numbers 1, 0, -1 and
\* 0.5, a pair and a line that is none of these
Lines ==
    {NameLine,
     Fields(<<IntToken(1), IntToken(2), IntToken(300)>>),
     Fields(<<IntToken(1), HalfToken, IntToken(3)>>),
     Fields(<<IntToken(1)>>),
     Fields(<<IntToken(0)>>),
     Fields(<<IntToken(0 - 1)>>),
     Fields(<<HalfToken>>),
     Fields(<<IntToken(1), IntToken(2)>>),
     Fields(<<BadToken>>)}

\* strconv.ParseFloat of the whole line
ParseFloat(line) ==
    IF Len(line.parts) = 1 /\ line.parts[1].num
    THEN [ok |-> TRUE, v |-> line.parts[1].v]
    ELSE [ok |-> FALSE, v |-> 0]

\* strconv.Atoi of one token
Atoi(tok) ==
    IF tok.num /\ tok.whole THEN [ok |-> TRUE, v |-> Div(tok.v, Scale)]
    ELSE [ok |-> FALSE, v |-> 0]

\* the conversion uint8(n)
Uint8(n) == n % 256

ParseRGB(line) ==
    IF /\ Len(line.parts) = 3
       /\ \A k \in 1..3 : Atoi(line.parts[k]).ok
    THEN [ok |-> TRUE, red |-> Uint8(Atoi(line.parts[1]).v),
          green |-> Uint8(Atoi(line.parts[2]).v), blue |-> Uint8(Atoi(line.parts[3]).v)]
    ELSE [ok |-> FALSE, red |-> 0, green |-> 0, blue |-> 0]

ParseOrderedPair(line) ==
    IF /\ Len(line.parts) = 2
       /\ line.parts[1].num
       /\ line.parts[2].num
    THEN [ok |-> TRUE, v |-> OrderedPair(line.parts[1].v, line.parts[2].v)]
    ELSE [ok |-> FALSE, v |-> ZeroPair]

\* the composite literal &Star{}
ZeroStar == Star(ZeroPair, ZeroPair, ZeroPair, 0, 0, 0, 0, 0)

\* the composite literal Universe{}
ZeroUniverse == [width |-> 0, stars |-> << >>]

NoError == "nil"

\* return Universe{}, err
Failed(err) == <<[universe |-> ZeroUniverse, err |-> err]>>

\* universe.stars with currentStar appended when there is one
WithCurrentStar ==
    IF currentStar # << >>
    THEN [universe EXCEPT !.stars = Append(@, currentStar[1])]
    ELSE universe

\* the body of the scanner loop for the line, lines 1105-1165: what becomes of
\* lineType, currentStar, universe, and the error returned, if any
LoopBody(line) ==
    LET same == [lineType |-> lineType, currentStar |-> currentStar,
                 universe |-> universe, err |-> NoError]
    IN CASE lineType = 0 ->
              IF line.name
              THEN [same EXCEPT !.universe = WithCurrentStar,
                                !.currentStar = <<ZeroStar>>,
                                !.lineType = 1]
              ELSE [same EXCEPT !.err = "expected star name"]
         [] lineType = 1 ->
              LET c == ParseRGB(line)
              IN IF ~c.ok THEN [same EXCEPT !.err = "invalid RGB values"]
                 ELSE [same EXCEPT !.currentStar[1].red = c.red,
                                   !.currentStar[1].green = c.green,
                                   !.currentStar[1].blue = c.blue,
                                   !.lineType = 2]
         [] lineType = 2 ->
              LET mass == ParseFloat(line)
              IN IF ~mass.ok THEN [same EXCEPT !.err = "invalid mass"]
                 ELSE [same EXCEPT !.currentStar[1].mass = mass.v, !.lineType = 3]
         [] lineType = 3 ->
              LET radius == ParseFloat(line)
              IN IF ~radius.ok THEN [same EXCEPT !.err = "invalid radius"]
                 ELSE [same EXCEPT !.currentStar[1].radius = radius.v, !.lineType = 4]
         [] lineType = 4 ->
              LET position == ParseOrderedPair(line)
              IN IF ~position.ok THEN [same EXCEPT !.err = "invalid position"]
                 ELSE [same EXCEPT !.currentStar[1].position = position.v, !.lineType = 5]
         [] lineType = 5 ->
              LET velocity == ParseOrderedPair(line)
              IN IF ~velocity.ok THEN [same EXCEPT !.err = "invalid velocity"]
                 ELSE [same EXCEPT !.currentStar[1].velocity = velocity.v, !.lineType = 0]

----------------------------------------------------------------------------
(* The call ReadUniverse(filename) on a file that can be opened. *)

InitRead ==
    /\ NoUniverse
    /\ NoSandpile
    /\ fileLines = << >>
    /\ lineType = 0
    /\ currentStar = << >>
    /\ universe = ZeroUniverse
    /\ readResult = << >>
    /\ readPc = "width"

\* lines 1084-1089: the first line
ScanWidth ==
    /\ readPc = "width"
    /\ \E line \in Lines :
          /\ fileLines' = Append(fileLines, line)
          /\ IF ParseFloat(line).ok
             THEN /\ universe' = [universe EXCEPT !.width = ParseFloat(line).v]
                  /\ readPc' = "g"
                  /\ UNCHANGED readResult
             ELSE /\ readResult' = Failed("invalid universe width")
                  /\ readPc' = "done"
                  /\ UNCHANGED universe
    /\ UNCHANGED <<lineType, currentStar>>
    /\ UNCHANGED <<universeVars, sandVars>>

\* lines 1090-1092: the file has no line
EmptyFile ==
    /\ readPc = "width"
    /\ readResult' = Failed("file is empty or missing width")
    /\ readPc' = "done"
    /\ UNCHANGED <<fileLines, lineType, currentStar, universe>>
    /\ UNCHANGED <<universeVars, sandVars>>

\* lines 1096-1102: the second line, whatever it is, is skipped; a file
\* without one is an error
SkipG ==
    /\ readPc = "g"
    /\ \/ \E line \in Lines :
             /\ fileLines' = Append(fileLines, line)
             /\ readPc' = "loop"
             /\ UNCHANGED readResult
       \/ /\ readResult' = Failed("file is missing gravitational constant line")
          /\ readPc' = "done"
          /\ UNCHANGED fileLines
    /\ UNCHANGED <<lineType, currentStar, universe>>
    /\ UNCHANGED <<universeVars, sandVars>>

\* one iteration of the loop of line 1104
ScanLine ==
    /\ readPc = "loop"
    /\ Len(fileLines) < MaxLines
    /\ \E line \in Lines :
          LET r == LoopBody(line)
          IN /\ fileLines' = Append(fileLines, line)
             /\ lineType' = r.lineType
             /\ currentStar' = r.currentStar
             /\ universe' = r.universe
             /\ IF r.err = NoError
                THEN UNCHANGED <<readResult, readPc>>
                ELSE /\ readResult' = Failed(r.err)
                     /\ readPc' = "done"
    /\ UNCHANGED <<universeVars, sandVars>>

\* the scanner has no more lines: lines 1168-1177
EndOfFile ==
    /\ readPc = "loop"
    /\ universe' = WithCurrentStar
    /\ readResult' = <<[universe |-> WithCurrentStar, err |-> NoError]>>
    /\ readPc' = "done"
    /\ UNCHANGED <<fileLines, lineType, currentStar>>
    /\ UNCHANGED <<universeVars, sandVars>>

NextRead ==
    \/ ScanWidth
    \/ EmptyFile
    \/ SkipG
    \/ ScanLine
    \/ EndOfFile

SpecRead == InitRead /\ [][NextRead]_vars

----------------------------------------------------------------------------
(* Claims about ReadUniverse. *)

\* the lines of the file after the width and the line that is skipped
HeaderLines == 2

\* the lines of a record: name, colour, mass, radius, position, velocity
RecordLines == 6

\* the number of the line of record k that is the n-th of its lines
LineOf(k, n) == HeaderLines + RecordLines * (k - 1) + n

\* the records whose mass line the scanner has returned
MassesRead == {k \in 1..MaxLines : LineOf(k, 3) <= Len(fileLines)}

\* C25: when ReadUniverse has read a mass that is 0 or less it returns the
\* error InvalidBodyMass, and a universe it returns without error has no
\* body with mass 0 or less.
C25_NonPositiveMassRejected ==
    readPc = "done" =>
        /\ (\E k \in MassesRead :
               /\ ParseFloat(fileLines[LineOf(k, 3)]).ok
               /\ ParseFloat(fileLines[LineOf(k, 3)]).v <= 0)
              => readResult[1].err = "InvalidBodyMass"
        /\ readResult[1].err = NoError =>
              \A k \in 1..Len(readResult[1].universe.stars) :
                  readResult[1].universe.stars[k].mass > 0

\* the Star that the six lines of record k describe
RecordStar(k) ==
    LET c == ParseRGB(fileLines[LineOf(k, 2)])
    IN Star(ParseOrderedPair(fileLines[LineOf(k, 5)]).v,
            ParseOrderedPair(fileLines[LineOf(k, 6)]).v,
            ZeroPair,
            ParseFloat(fileLines[LineOf(k, 3)]).v,
            ParseFloat(fileLines[LineOf(k, 4)]).v,
            c.red, c.green, c.blue)

\* the file ends with the last line of a record, or right after the header
WholeRecords ==
    /\ Len(fileLines) >= HeaderLines
    /\ (Len(fileLines) - HeaderLines) % RecordLines = 0

\* the bodies returned are those of the records of the file, in file order
BodiesInFileOrder ==
    LET stars == readResult[1].universe.stars
    IN /\ Len(stars) * RecordLines = Len(fileLines) - HeaderLines
       /\ \A k \in 1..Len(stars) : stars[k] = RecordStar(k)

\* a file of whole records that is read without error gives its bodies in
\* file order
WholeFilesInOrder ==
    (readPc = "done" /\ readResult[1].err = NoError /\ WholeRecords) => BodiesInFileOrder

\* C26: ReadUniverse returns without error only when the file ends with the
\* last line of a record; the bodies it returns are then the records of the
\* file in file order, each with all six of its lines read.
C26_ErrorOrWholeRecords ==
    (readPc = "done" /\ readResult[1].err = NoError) =>
        /\ WholeRecords
        /\ BodiesInFileOrder

----------------------------------------------------------------------------
(* Termination of GenerateQuadTree. *)

\* the next step of GenerateQuadTree's loop, by what it does to the loop's
\* position: an iteration (lines 86-88) or the return (line 89)
TreeLoopStep ==
    /\ pc = "tree"
    /\ \/ inserted < NumStars /\ inserted' = inserted + 1 /\ pc' = pc
       \/ inserted = NumStars /\ pc' = "stars" /\ inserted' = inserted

\* the goroutine that runs GenerateQuadTree keeps running
SpecTreeFair == InitTree /\ [][Next]_vars /\ WF_<<pc, inserted>>(TreeLoopStep)

\* the smallest distance in x or y between two of the TreeBodies that are at
\* different positions: 0.5
MinGap == Scale \div 2

\* no quadrant is narrower than the smallest distance between bodies
QuadrantsNotBelowGap == \A node \in DOMAIN tree : tree[node].sector.width >= MinGap

\* the body GenerateQuadTree's loop inserts next
NextInserted == heap[TreeStars[inserted + 1]]

\* an insertion of a body at the position of a body that a leaf holds makes
\* no new node
SamePositionNoSplit ==
    (/\ pc = "tree"
     /\ inserted' = inserted + 1
     /\ HoldingLeaves(NextInserted.position) # {}) => DOMAIN tree' = DOMAIN tree

\* C27: GenerateQuadTree returns for every universe; a leaf is subdivided
\* only until two bodies at different positions are in different children,
\* so no quadrant gets narrower than the distance between them; inserting a
\* body at the position of the body a leaf holds does not subdivide.
C27_TreeBuildTerminates ==
    /\ (pc = "tree") ~> (pc = "stars")
    /\ []QuadrantsNotBelowGap
    /\ [][SamePositionNoSplit]_vars

\* the tree is built from three bodies: two at one position, in one leaf, and
\* one half a unit from another body, two subdivisions deeper than needed for
\* the first
C27_Witness ==
    /\ pc = "stars"
    /\ inserted = 3
    /\ \E a, b \in 1..3 : a # b /\ Orig(a).position = Orig(b).position
    /\ \E node \in DOMAIN tree : Len(node) >= 1

----------------------------------------------------------------------------
(* The tree and the order of insertion. *)

\* the orders in which n bodies can be inserted
Orders(n) == {p \in [1..n -> 1..n] : \A a, b \in 1..n : a # b => p[a] # p[b]}

\* the tree GenerateQuadTree builds when the bodies of the step are handed
\* to it in the order p
TreeInOrder(p) ==
    GenerateQuadTree(created[CurrentUniverse],
                     [width |-> universes[CurrentUniverse].width, stars |-> p])

\* what a tree says, whatever objects it is made of: each node's quadrant,
\* whether it is internal, the body a leaf holds, and the mass and centroid
\* an internal node's aggregate holds
NodeView(st, node) ==
    LET n == st.t[node]
    IN [sector |-> n.sector,
        children |-> n.children,
        body |-> IF n.children \/ n.star = Nil THEN Nil ELSE n.star,
        mass |-> IF n.children /\ n.star # Nil THEN st.h[n.star].mass ELSE 0,
        centroid |-> IF n.children /\ n.star # Nil THEN st.h[n.star].position
                     ELSE ZeroPair]

TreeView(st) == [node \in DOMAIN st.t |-> NodeView(st, node)]

\* the same tree but for the centroids, which are within slack units
SameButRounding(v, w, slack) ==
    /\ DOMAIN v = DOMAIN w
    /\ \A node \in DOMAIN v :
          /\ v[node].sector = w[node].sector
          /\ v[node].children = w[node].children
          /\ v[node].body = w[node].body
          /\ v[node].mass = w[node].mass
          /\ Abs(v[node].centroid.x - w[node].centroid.x) <= slack
          /\ Abs(v[node].centroid.y - w[node].centroid.y) <= slack

AllInserted == pc = "tree" /\ inserted = NumStars

----------------------------------------------------------------------------
(* The rows a goroutine touches. *)

\* the rows of toppleChunk(board, start, end) for goroutine g, counted from 1
OwnRows(g) ==
    (StartIndex(g, numProcs, NumRows(currentBoard)) + 1)
        .. EndIndex(g, numProcs, NumRows(currentBoard))

\* the cell goroutine g reads or writes in its next step, if it does
Touches(g) ==
    LET w == workers[g]
    IN IF w.at \in {"test", "enter"} THEN {<<w.r, w.c>>}
       ELSE IF w.at \in {"read", "write"}
            THEN LET a == Accesses(currentBoard, w.r, w.c)[w.k] IN {<<a[1], a[2]>>}
            ELSE {}

\* the chunks of a round are disjoint and cover every row once
ChunksPartitionRows ==
    sandPc = "wait" =>
        \A row \in 1..NumRows(currentBoard) :
            Cardinality({g \in DOMAIN workers : row \in OwnRows(g)}) = 1

\* C29: in a round no cell is touched by two goroutines: every cell a
\* goroutine reads or changes lies in its own rows, and the chunks are
\* disjoint row ranges that cover every row once.
C29_WorkersKeepToTheirRows ==
    /\ ChunksPartitionRows
    /\ \A g \in DOMAIN workers : \A rc \in Touches(g) : rc[1] \in OwnRows(g)
    /\ \A g, f \in DOMAIN workers : g # f => Touches(g) \cap Touches(f) = {}

----------------------------------------------------------------------------
(* The rounds of the parallel simulation. *)

\* a board with more grains in every cell than the boards of Boards
HeavyGrains == 6

HeavyBoards == {[r \in 1..2 |-> [c \in 1..2 |-> HeavyGrains]]}

\* lines 12-16, for the boards of Boards and the heavy ones
InitRounds ==
    /\ NoUniverse
    /\ NoRead
    /\ currentBoard \in Boards \cup HeavyBoards
    /\ numProcs \in 1..MaxProcs
    /\ startBoard = currentBoard
    /\ finalBoards = <<copyBoard(currentBoard)>>
    /\ interval = 0
    /\ stable = FALSE
    /\ cell = <<0, 0>>
    /\ workers = << >>
    /\ finished = 0
    /\ sandPc = "spawn"

\* the steps of the goroutine that runs SimulateSandpilesParallel
MainStep == Spawn \/ WaitAll \/ CheckStable \/ ParallelReturn

\* the steps of the g-th goroutine of a round
WorkerStep(g) ==
    /\ g \in DOMAIN workers
    /\ \/ WorkerTest(g)
       \/ WorkerEnter(g)
       \/ WorkerRead(g)
       \/ WorkerWrite(g)
       \/ WorkerSend(g)

\* the scheduler lets every goroutine that can run take its next step
SpecRounds ==
    /\ InitRounds
    /\ [][NextParallel]_vars
    /\ WF_vars(MainStep)
    /\ \A g \in 1..MaxProcs : WF_vars(WorkerStep(g))

Exited == {g \in DOMAIN workers : workers[g].at = "exit"}

\* numProcs goroutines run in a round, each signal on the channel is of one
\* that has left its loops, and the channel has room for a goroutine that is
\* about to send
RoundOfWorkers ==
    sandPc = "wait" =>
        /\ Len(workers) = numProcs
        /\ finished = Cardinality(Exited)
        /\ \A g \in DOMAIN workers : workers[g].at = "send" => finished < numProcs

\* no goroutine of a round is left when the main loop checks the board,
\* starts a round or returns
MainAlone == sandPc # "wait" => workers = << >> /\ finished = 0

\* the main loop leaves its wait only when every goroutine has sent
WaitsForAll ==
    (sandPc = "wait" /\ sandPc' # "wait") => Cardinality(Exited) = numProcs

\* the board at the start of a later round is never the board the simulation
\* was given: from such a round the schedule that led to it can be repeated
\* for ever, so a simulation that terminates on every schedule has none
BoardNeverRecurs == ~(sandPc = "spawn" /\ interval > 0 /\ currentBoard = startBoard)

\* C30: every round starts numProcs goroutines and each sends one signal;
\* the main loop checks the board and starts the next round only after all
\* of them have finished; no goroutine stays blocked on the channel; and
\* the simulation terminates for every board (it reaches its return, and no
\* round starts from the input board again).
C30_RoundsCompleteAndTerminate ==
    /\ [](RoundOfWorkers /\ MainAlone /\ BoardNeverRecurs)
    /\ [][WaitsForAll]_vars
    /\ <>(sandPc = "done")

\* the rounds without the termination
RoundsComplete == [](RoundOfWorkers /\ MainAlone) /\ [][WaitsForAll]_vars

====
